---- MODULE Spec2Model ----
(***************************************************************************)
(* The hierarchical-menu connector (src/unnamed/part_000): the pure         *)
(* functions getId, getCurrentRefinement, getValue, transformValue and the  *)
(* four connector entry points getProps, refine, getSearchParameters and    *)
(* getMetadata, driven by the events of a search session.                   *)
(*                                                                         *)
(* Encoding of JavaScript values.  A refinement (a path string such as      *)
(* 'a > b') is the sequence of its levels, <<"a", "b">>; the separator is    *)
(* put back by PathString.  The empty string '' is the path with no level.  *)
(* undefined and null are two reserved one-level values that no facet path  *)
(* uses.  A number that may be unset uses NoNumber.  A property key that is *)
(* undefined is the string "undefined", as a JavaScript object coerces it.  *)
(***************************************************************************)
EXTENDS Integers, Sequences, FiniteSets, TLC

Undefined == <<"#undefined">>
Null == <<"#null">>
EmptyString == <<>>
UndefinedId == "undefined"
NoNumber == 0 - 1

\* JavaScript truthiness of a string-or-null-or-undefined value.
Truthy(v) == v \notin {Undefined, Null, EmptyString}

Min(a, b) == IF a < b THEN a ELSE b
\* Mutant of Max: the limit overwrites the value already set.
MaxTakesLimit(a, b) == b

\* Math.max
Max(a, b) == IF a > b THEN a ELSE b

RECURSIVE PathString(_, _)
\* The string of a path: its levels joined by the separator.
PathString(p, separator) ==
    IF Len(p) = 0 THEN ""
    ELSE IF Len(p) = 1 THEN p[1]
    ELSE p[1] \o separator \o PathString(Tail(p), separator)

IsPrefix(p, q) == Len(p) <= Len(q) /\ SubSeq(q, 1, Len(p)) = p
Front(p) == SubSeq(p, 1, Len(p) - 1)

(***************************************************************************)
(* Bounds and input sets.                                                   *)
(***************************************************************************)
MaxWidth == 2
MaxLimit == 1

Widgets == {"categories", "brand"}
\* The keys of the shared state mapping: the two widgets' and another's.
Keys == Widgets \cup {"query"}
FacetNames == Keys \cup {UndefinedId}
Paths == {<<"a">>, <<"a", "b">>}
\* What a caller can pass to refine.
RefineInputs == Paths \cup {Null, Undefined, EmptyString}

(***************************************************************************)
(* defaultProps                                                             *)
(***************************************************************************)
DefaultLimitMin == 10
DefaultLimitMax == 20
DefaultSeparator == " > "

\* The props of a widget: the declared propTypes, the defaults merged in,
\* plus the undeclared `id` that getValue reads.
MakeProps(attributes, id, defaultRefinement, showMore, limitMin, limitMax) ==
    [attributes |-> attributes, id |-> id,
     defaultRefinement |-> defaultRefinement,
     showMore |-> showMore, limitMin |-> limitMin, limitMax |-> limitMax,
     separator |-> DefaultSeparator, rootPath |-> Null,
     showParentLevel |-> TRUE]

(***************************************************************************)
(* The connector's helpers                                                  *)
(***************************************************************************)
getId(props) == props.attributes[1]

\* typeof attributes === 'undefined' || !attributes.length
AttributesMissing(props) ==
    props.attributes = Undefined \/ Len(props.attributes) = 0

\* Mutant of getCurrentRefinement: one falsy test, so that '' falls back to
\* the default like an absent entry.
getCurrentRefinementFalsy(props, state) ==
    LET id == getId(props) IN
    IF Truthy(state[id]) THEN state[id]
    ELSE IF Truthy(props.defaultRefinement) THEN props.defaultRefinement
    ELSE Null

getCurrentRefinement(props, state) ==
    LET id == getId(props) IN
    IF state[id] # Undefined
    THEN IF state[id] = EmptyString THEN Null ELSE state[id]
    ELSE IF Truthy(props.defaultRefinement) THEN props.defaultRefinement
    ELSE Null

(***************************************************************************)
(* The search engine's immutable SearchParameters value, as far as the      *)
(* connector uses it.                                                       *)
(***************************************************************************)
NewSearchParameters(hierarchicalFacets, maxValuesPerFacet) ==
    [hierarchicalFacets |-> hierarchicalFacets,
     hierarchicalFacetsRefinements |-> [n \in FacetNames |-> <<>>],
     maxValuesPerFacet |-> maxValuesPerFacet]

isHierarchicalFacet(sp, name) ==
    \E i \in 1..Len(sp.hierarchicalFacets) : sp.hierarchicalFacets[i].name = name

addHierarchicalFacet(sp, facet) ==
    [sp EXCEPT !.hierarchicalFacets = Append(@, facet)]

setMaxValuesPerFacet(sp, n) == [sp EXCEPT !.maxValuesPerFacet = n]

\* Toggling the refined path or one of its ancestors moves the refinement to
\* the toggled path's parent; toggling any other path refines on it.
toggleHierarchicalFacetRefinement(sp, facet, value) ==
    LET cur == sp.hierarchicalFacetsRefinements[facet]
        upOneOrMultipleLevel == Len(cur) > 0 /\ IsPrefix(value, cur[1])
        mod == IF upOneOrMultipleLevel
               THEN IF Len(value) <= 1 THEN <<>> ELSE <<Front(value)>>
               ELSE <<value>>
    IN [sp EXCEPT !.hierarchicalFacetsRefinements[facet] = mod]

getHierarchicalRefinement(sp, facet) == sp.hierarchicalFacetsRefinements[facet]

\* array[0]: undefined on an empty array
First(seq) == IF Len(seq) = 0 THEN Undefined ELSE seq[1]

\* The facet definition both getValue and getSearchParameters register.
FacetDefinition(name, props) ==
    [name |-> name, attributes |-> props.attributes,
     separator |-> props.separator, rootPath |-> props.rootPath,
     showParentLevel |-> props.showParentLevel]

(***************************************************************************)
(* getValue, transformValue                                                 *)
(***************************************************************************)
\* The name getValue gives the throwaway facet and toggles on: the `id` it
\* destructures from props.
getValueId(props) == props.id

tmpSearchParameters(props) ==
    NewSearchParameters(<<FacetDefinition(getValueId(props), props)>>, NoNumber)

getValue(path, props, state) ==
    LET id == getValueId(props)
        currentRefinement == getCurrentRefinement(props, state)
    IN IF currentRefinement = Null THEN path
       ELSE First(getHierarchicalRefinement(
                toggleHierarchicalFacetRefinement(
                    toggleHierarchicalFacetRefinement(
                        tmpSearchParameters(props), id, currentRefinement),
                    id, path),
                id))

\* value.slice(0, limit), for a limit >= 0
Slice(value, limit) == SubSeq(value, 1, Min(limit, Len(value)))

RECURSIVE transformAll(_, _, _)
\* Mutant of transformValue, lower levels: no limit.
transformAll(value, props, state) ==
    [i \in 1..Len(value) |->
        [label |-> value[i].name,
         value |-> getValue(value[i].path, props, state),
         count |-> value[i].count,
         isRefined |-> value[i].isRefined,
         hasChildren |-> value[i].hasData,
         children |-> IF value[i].hasData
                      THEN transformAll(value[i].data, props, state)
                      ELSE <<>>]]

\* Mutant of transformValue: the limit is not passed down to the children.
transformValueTopOnly(value, limit, props, state) ==
    transformAll(Slice(value, limit), props, state)

RECURSIVE transformValue(_, _, _, _)
\* A facet value v is [name, path, count, isRefined, hasData, data]; hasData
\* is FALSE when v.data is undefined.  An item's children are undefined when
\* hasChildren is FALSE.
transformValue(value, limit, props, state) ==
    LET limitValue == Slice(value, limit) IN
    [i \in 1..Len(limitValue) |->
        LET v == limitValue[i] IN
        [label |-> v.name,
         value |-> getValue(v.path, props, state),
         count |-> v.count,
         isRefined |-> v.isRefined,
         hasChildren |-> v.hasData,
         children |-> IF v.hasData
                      THEN transformValue(v.data, limit, props, state)
                      ELSE <<>>]]

(***************************************************************************)
(* The connector's four entry points.  Each returns [threw |-> TRUE] when   *)
(* it throws 'attributes props should at least have one element'.           *)
(***************************************************************************)
Threw == [threw |-> TRUE]

\* Mutant of ActiveLimit: the two limits swapped.
ActiveLimitSwapped(props) == IF props.showMore THEN props.limitMin ELSE props.limitMax

\* showMore ? limitMax : limitMin
ActiveLimit(props) == IF props.showMore THEN props.limitMax ELSE props.limitMin

\* results is [present, facets, hasData, data]: present is FALSE before the
\* first response; facets are the names getFacetByName finds; data is the
\* tree getFacetValues returns (hasData FALSE when it has no data).
getProps(props, state, results) ==
    IF AttributesMissing(props) THEN Threw
    ELSE LET id == getId(props)
             isFacetPresent == results.present /\ id \in results.facets
             limit == ActiveLimit(props)
         IN IF ~isFacetPresent THEN [threw |-> FALSE, isNull |-> TRUE]
            ELSE [threw |-> FALSE, isNull |-> FALSE,
                  items |-> IF results.hasData
                            THEN transformValue(results.data, limit, props, state)
                            ELSE <<>>,
                  currentRefinement |-> getCurrentRefinement(props, state)]

\* Mutant of refine: the attributes are not checked.
refineUnchecked(props, state, nextRefinement) ==
    IF AttributesMissing(props) THEN [threw |-> FALSE, value |-> state]
    ELSE [threw |-> FALSE,
          value |-> [state EXCEPT ![getId(props)] =
                        IF Truthy(nextRefinement) THEN nextRefinement
                        ELSE EmptyString]]

\* Mutant of refine: a clear removes the entry instead of storing ''.
refineDeletesEntry(props, state, nextRefinement) ==
    IF AttributesMissing(props) THEN Threw
    ELSE [threw |-> FALSE,
          value |-> [state EXCEPT ![getId(props)] =
                        IF Truthy(nextRefinement) THEN nextRefinement
                        ELSE Undefined]]

\* Mutant of refine: the other keys of the state are not copied.
refineDropsOthers(props, state, nextRefinement) ==
    IF AttributesMissing(props) THEN Threw
    ELSE [threw |-> FALSE,
          value |-> [k \in DOMAIN state |->
                        IF k # getId(props) THEN Undefined
                        ELSE IF Truthy(nextRefinement) THEN nextRefinement
                        ELSE EmptyString]]

refine(props, state, nextRefinement) ==
    IF AttributesMissing(props) THEN Threw
    ELSE [threw |-> FALSE,
          value |-> [state EXCEPT ![getId(props)] =
                        IF Truthy(nextRefinement) THEN nextRefinement
                        ELSE EmptyString]]

\* searchParameters.maxValuesPerFacet || 0
OrZero(n) == IF n = NoNumber THEN 0 ELSE n

\* Mutant of getSearchParameters: the refinement is read from the state
\* alone, without the defaultRefinement.
getSearchParametersStateOnly(searchParameters, props, state) ==
    IF AttributesMissing(props) THEN Threw
    ELSE LET id == getId(props)
             withFacet ==
                 setMaxValuesPerFacet(
                     addHierarchicalFacet(searchParameters,
                                          FacetDefinition(id, props)),
                     Max(IF searchParameters.maxValuesPerFacet = NoNumber THEN 0
                         ELSE searchParameters.maxValuesPerFacet,
                         IF props.showMore THEN props.limitMax
                         ELSE props.limitMin))
         IN [threw |-> FALSE,
             value |-> IF Truthy(state[id])
                       THEN toggleHierarchicalFacetRefinement(
                                withFacet, id, state[id])
                       ELSE withFacet]

getSearchParameters(searchParameters, props, state) ==
    IF AttributesMissing(props) THEN Threw
    ELSE LET id == getId(props)
             limit == ActiveLimit(props)
             withFacet ==
                 setMaxValuesPerFacet(
                     addHierarchicalFacet(searchParameters,
                                          FacetDefinition(id, props)),
                     Max(OrZero(searchParameters.maxValuesPerFacet), limit))
             currentRefinement == getCurrentRefinement(props, state)
         IN [threw |-> FALSE,
             value |-> IF currentRefinement # Null
                       THEN toggleHierarchicalFacetRefinement(
                                withFacet, id, currentRefinement)
                       ELSE withFacet]

\* `${rootAttribute}: ${currentRefinement}`
MetadataLabel(rootAttribute, currentRefinement, separator) ==
    rootAttribute \o ": " \o PathString(currentRefinement, separator)

\* Mutant of MetadataValue: the entry is removed instead of set to ''.
MetadataValueDeletes(props, nextState) ==
    [nextState EXCEPT ![getId(props)] = Undefined]

\* The `value` function of a metadata item.
MetadataValue(props, nextState) ==
    [nextState EXCEPT ![getId(props)] = EmptyString]

getMetadata(props, state) ==
    IF AttributesMissing(props) THEN Threw
    ELSE LET rootAttribute == props.attributes[1]
             id == getId(props)
             currentRefinement == getCurrentRefinement(props, state)
         IN [threw |-> FALSE,
             id |-> id,
             items |-> IF ~Truthy(currentRefinement) THEN <<>>
                       ELSE <<[label |-> MetadataLabel(rootAttribute,
                                            currentRefinement, props.separator),
                               attributeName |-> rootAttribute,
                               currentRefinement |-> currentRefinement]>>]

(***************************************************************************)
(* The search engine's results: generated facet-value trees.                *)
(***************************************************************************)
Names == <<"a", "b", "c", "d", "e", "f">>
NoData == 0 - 1

\* A facet value; the engine marks the first value of each level refined.
FacetValue(path, i, hasData, data) ==
    [name |-> Names[i], path |-> path, count |-> i, isRefined |-> (i = 1),
     hasData |-> hasData, data |-> data]

\* n values below `prefix`, each with g values below it (none when g = NoData)
Leaves(prefix, n) ==
    [j \in 1..n |-> FacetValue(Append(prefix, Names[j]), j, FALSE, <<>>)]

Level2(prefix, n, g) ==
    [j \in 1..n |->
        LET path == Append(prefix, Names[j]) IN
        FacetValue(path, j, g # NoData,
                   IF g = NoData THEN <<>> ELSE Leaves(path, g))]

\* shape[i] is the number of values below the i-th top-level value.
FacetTree(shape, g) ==
    [i \in 1..Len(shape) |->
        LET path == <<Names[i]>> IN
        FacetValue(path, i, shape[i] # NoData,
                   IF shape[i] = NoData THEN <<>>
                   ELSE Level2(path, shape[i], g))]

Shapes == UNION {[1..n -> {NoData} \cup 0..MaxWidth] : n \in 0..MaxWidth}
Trees == {FacetTree(shape, g) : shape \in Shapes, g \in {NoData, 0, MaxWidth}}

NoResults == [present |-> FALSE, facets |-> {}, hasData |-> FALSE, data |-> <<>>]
\* A response without any of the widgets' facets.
OtherResults == [present |-> TRUE, facets |-> {"price"}, hasData |-> FALSE,
                 data |-> <<>>]
\* A response with the widgets' facets; getFacetValues has no data.
EmptyResults == [present |-> TRUE, facets |-> Widgets, hasData |-> FALSE,
                 data |-> <<>>]
ResultsOf(tree) == [present |-> TRUE, facets |-> Widgets, hasData |-> TRUE,
                    data |-> tree]

(***************************************************************************)
(* The session                                                              *)
(***************************************************************************)
VARIABLES
    props,             \* each widget's props, fixed when it is created
    state,             \* the shared refinement state, key -> value
    baseParameters,    \* the parameters the current build started from
    searchParameters,  \* the parameters built so far
    results,           \* the last response of the engine
    ret                \* the last call of an entry point and what it returned

vars == <<props, state, baseParameters, searchParameters, results, ret>>

ValidAttributes(w) == <<w, w \o ".lvl1">>
NoCall == [op |-> "none"]
EmptyParameters == NewSearchParameters(<<>>, NoNumber)

Refine(w, nextRefinement) ==
    LET r == refine(props[w], state, nextRefinement) IN
    /\ state' = IF r.threw THEN state ELSE r.value
    /\ ret' = [op |-> "refine", w |-> w, arg |-> nextRefinement,
               input |-> state, out |-> r]
    /\ UNCHANGED <<props, baseParameters, searchParameters, results>>

GetMetadata(w) ==
    /\ ret' = [op |-> "getMetadata", w |-> w, out |-> getMetadata(props[w], state)]
    /\ UNCHANGED <<props, state, baseParameters, searchParameters, results>>

\* The user removes the active filter: the metadata item's value function is
\* applied to the state.
ClearRefinement(w) ==
    LET m == getMetadata(props[w], state) IN
    /\ ~m.threw
    /\ Len(m.items) = 1
    /\ state' = MetadataValue(props[w], state)
    /\ ret' = [op |-> "clear", w |-> w, input |-> state]
    /\ UNCHANGED <<props, baseParameters, searchParameters, results>>

GetProps(w) ==
    /\ ret' = [op |-> "getProps", w |-> w,
               out |-> getProps(props[w], state, results)]
    /\ UNCHANGED <<props, state, baseParameters, searchParameters, results>>

\* A build passes the parameters through each widget once.
GetSearchParameters(w) ==
    LET r == getSearchParameters(searchParameters, props[w], state) IN
    /\ IF AttributesMissing(props[w]) THEN TRUE
       ELSE ~isHierarchicalFacet(searchParameters, getId(props[w]))
    /\ searchParameters' = IF r.threw THEN searchParameters ELSE r.value
    /\ ret' = [op |-> "getSearchParameters", w |-> w,
               input |-> searchParameters, out |-> r]
    /\ UNCHANGED <<props, state, baseParameters, results>>

\* A new build starts from parameters whose maxValuesPerFacet is n.
NewSearch(n) ==
    /\ searchParameters # NewSearchParameters(<<>>, n)
    /\ baseParameters' = NewSearchParameters(<<>>, n)
    /\ searchParameters' = NewSearchParameters(<<>>, n)
    /\ ret' = NoCall
    /\ UNCHANGED <<props, state, results>>

NewResults(r) ==
    /\ results # r
    /\ results' = r
    /\ ret' = NoCall
    /\ UNCHANGED <<props, state, baseParameters, searchParameters>>

(***************************************************************************)
(* Spec: a session of two widgets with the default limits; the first one's  *)
(* attributes and defaultRefinement range over the cases.                   *)
(***************************************************************************)
SmallTree == FacetTree(<<1, NoData>>, NoData)

Init ==
    /\ \E attributes \in {Undefined, <<>>, ValidAttributes("categories")},
          defaultRefinement \in {Undefined, <<"b">>} :
          props = [w \in Widgets |->
                     IF w = "categories"
                     THEN MakeProps(attributes, UndefinedId, defaultRefinement,
                                    FALSE, DefaultLimitMin, DefaultLimitMax)
                     ELSE MakeProps(ValidAttributes(w), UndefinedId, Undefined,
                                    FALSE, DefaultLimitMin, DefaultLimitMax)]
    /\ state \in [Keys -> {Undefined, <<"a">>}]
    /\ baseParameters = EmptyParameters
    /\ searchParameters = EmptyParameters
    /\ results = NoResults
    /\ ret = NoCall

Next ==
    \/ \E w \in Widgets, nextRefinement \in RefineInputs : Refine(w, nextRefinement)
    \/ \E w \in Widgets : ClearRefinement(w)
    \/ \E w \in Widgets : GetMetadata(w)
    \/ \E w \in Widgets : GetProps(w)
    \/ \E w \in Widgets : GetSearchParameters(w)
    \/ NewSearch(NoNumber)
    \/ \E r \in {OtherResults, ResultsOf(SmallTree)} : NewResults(r)

Spec == Init /\ [][Next]_vars

(***************************************************************************)
(* SpecItems: getProps over the generated trees, limits and refinements.    *)
(***************************************************************************)
InitItems ==
    /\ \E id \in {UndefinedId, "categories"},
          defaultRefinement \in {Undefined, <<"a">>},
          showMore \in BOOLEAN,
          limitMin \in 0..MaxLimit,
          limitMax \in 0..MaxLimit :
          props = [w \in Widgets |->
                     IF w = "categories"
                     THEN MakeProps(ValidAttributes(w), id, defaultRefinement,
                                    showMore, limitMin, limitMax)
                     ELSE MakeProps(ValidAttributes(w), UndefinedId, Undefined,
                                    FALSE, DefaultLimitMin, DefaultLimitMax)]
    /\ \E refinement \in {Undefined, <<"a", "b">>} :
          state = [k \in Keys |-> IF k = "categories" THEN refinement ELSE Undefined]
    /\ baseParameters = EmptyParameters
    /\ searchParameters = EmptyParameters
    /\ results \in {NoResults, OtherResults, EmptyResults}
                     \cup {ResultsOf(tree) : tree \in Trees}
    /\ ret = NoCall

NextItems == \E w \in Widgets : GetProps(w)

SpecItems == InitItems /\ [][NextItems]_vars

(***************************************************************************)
(* SpecParams: builds of the search parameters by two widgets whose limits  *)
(* range over the cases.                                                    *)
(***************************************************************************)
BaseValues == {NoNumber} \cup 0..(MaxLimit + 1)

InitParams ==
    /\ \E showMore \in [Widgets -> BOOLEAN],
          limitMin \in [Widgets -> 0..MaxLimit],
          limitMax \in [Widgets -> 0..MaxLimit] :
          props = [w \in Widgets |->
                     MakeProps(ValidAttributes(w), UndefinedId, Undefined,
                               showMore[w], limitMin[w], limitMax[w])]
    /\ state = [k \in Keys |-> IF k = "categories" THEN <<"a">> ELSE Undefined]
    /\ \E n \in BaseValues :
          /\ baseParameters = NewSearchParameters(<<>>, n)
          /\ searchParameters = NewSearchParameters(<<>>, n)
    /\ results = NoResults
    /\ ret = NoCall

NextParams ==
    \/ \E w \in Widgets : GetSearchParameters(w)
    \/ \E n \in BaseValues : NewSearch(n)

SpecParams == InitParams /\ [][NextParams]_vars

(***************************************************************************)
(* Properties                                                               *)
(***************************************************************************)
EntryPoints == {"getProps", "refine", "getSearchParameters", "getMetadata"}
Called(op) == ret.op = op
Returned(op) == ret.op = op /\ ~ret.out.threw
StateValues == Paths \cup {Undefined, EmptyString}

\* C1: with attributes undefined or empty, each of getProps, refine,
\* getSearchParameters and getMetadata throws the configuration error and
\* returns nothing: the state and the search parameters stay as they were.
C1_ConfigurationError ==
    (ret.op \in EntryPoints /\ AttributesMissing(props[ret.w])) =>
        /\ ret.out = Threw
        /\ Called("refine") => state = ret.input
        /\ Called("getSearchParameters") => searchParameters = ret.input

C1_Witness ==
    /\ Called("refine")
    /\ props[ret.w].attributes = <<>>
    /\ ret.arg = <<"a">>
    /\ ret.out.threw

\* The refinement the resolution order of C2 gives, read off the state entry
\* s and the configured default d.
Resolved(s, d) ==
    IF s # Undefined /\ s # EmptyString THEN s
    ELSE IF s = EmptyString THEN Null
    ELSE IF d # Undefined THEN d
    ELSE Null

\* C2: the currentRefinement getProps reports is state[id] when that is
\* defined and non-empty, null when it is the empty string, else the
\* defaultRefinement when one is configured, else null.
C2_ResolutionOrder ==
    (Returned("getProps") /\ ~ret.out.isNull) =>
        LET p == props[ret.w] IN
        ret.out.currentRefinement =
            Resolved(state[p.attributes[1]], p.defaultRefinement)

C2_Witness ==
    /\ Returned("getProps")
    /\ ~ret.out.isNull
    /\ state[props[ret.w].attributes[1]] = EmptyString
    /\ props[ret.w].defaultRefinement = <<"b">>
    /\ ret.out.currentRefinement = Null

\* C3: after refine(x) the current refinement is x when x is a non-empty
\* string, and null when x is null, undefined or '' (the entry is then ''),
\* whatever the state was before and whatever the defaultRefinement.
C3_RefineRoundTrip ==
    Returned("refine") =>
        LET p == props[ret.w]
            id == p.attributes[1]
        IN IF ret.arg \in Paths
           THEN getCurrentRefinement(p, state) = ret.arg
           ELSE state[id] = EmptyString /\ getCurrentRefinement(p, state) = Null

C3_Witness ==
    /\ Returned("refine")
    /\ ret.arg = Null
    /\ props[ret.w].defaultRefinement = <<"b">>
    /\ ret.input[props[ret.w].attributes[1]] = <<"a", "b">>
    /\ state[props[ret.w].attributes[1]] = EmptyString

\* C7: getMetadata returns no item when the current refinement is null and
\* otherwise one item, labelled "<attributes[0]>: <refinement>", naming
\* attributes[0] and the resolved refinement; the item's value function sets
\* the widget's entry of any state to '', after which getMetadata has no item.
C7_Metadata ==
    Returned("getMetadata") =>
        LET p == props[ret.w]
            id == p.attributes[1]
            refinement == Resolved(state[id], p.defaultRefinement)
        IN /\ refinement = Null => ret.out.items = <<>>
           /\ refinement # Null =>
                /\ Len(ret.out.items) = 1
                /\ ret.out.items[1].label =
                       id \o ": " \o PathString(refinement, " > ")
                /\ ret.out.items[1].attributeName = id
                /\ ret.out.items[1].currentRefinement = refinement
           /\ \A s \in [Keys -> StateValues] :
                /\ MetadataValue(p, s)[id] = EmptyString
                /\ getMetadata(p, MetadataValue(p, s)).items = <<>>

C7_Witness ==
    /\ Returned("getMetadata")
    /\ ret.w = "categories"
    /\ state["categories"] = Undefined
    /\ Len(ret.out.items) = 1
    /\ ret.out.items[1].label = "categories: b"

\* C9: refine and a metadata item's value function change the state at the
\* widget's key only: every other key keeps its value and none is removed;
\* refinements of two widgets with different identifiers commute.
C9_Frame ==
    /\ (Returned("refine") \/ Called("clear")) =>
          LET id == props[ret.w].attributes[1] IN
          /\ DOMAIN state = DOMAIN ret.input
          /\ \A k \in Keys \ {id} : state[k] = ret.input[k]
    /\ Returned("refine") =>
          \A v \in Widgets \ {ret.w}, x, y \in RefineInputs :
              ~AttributesMissing(props[v]) =>
                  refine(props[v], refine(props[ret.w], ret.input, x).value, y).value
                    = refine(props[ret.w], refine(props[v], ret.input, y).value, x).value

C9_Witness ==
    /\ Returned("refine")
    /\ ret.w = "categories"
    /\ ret.input["categories"] # state["categories"]
    /\ state["brand"] = <<"a", "b">>
    /\ state["query"] = <<"a">>

\* The refinements getSearchParameters has left on the widget's facet.
Toggled(sp, id) == sp.hierarchicalFacetsRefinements[id]

\* C10 as stated: getSearchParameters has toggled the widget's facet (once,
\* with the resolved refinement) iff getProps reports a non-null
\* currentRefinement iff getMetadata has one item, all with the same value.
C10_ViewsAgree_Original ==
    Returned("getSearchParameters") =>
        LET p == props[ret.w]
            id == p.attributes[1]
            toggled == Toggled(ret.out.value, id)
            view == getProps(p, state, results)
            meta == getMetadata(p, state)
        IN /\ toggled # <<>> <=> (~view.isNull /\ view.currentRefinement # Null)
           /\ toggled # <<>> <=> Len(meta.items) = 1
           /\ toggled # <<>> =>
                /\ toggled = <<view.currentRefinement>>
                /\ toggled = <<meta.items[1].currentRefinement>>
           /\ toggled = <<>> => meta.items = <<>>

\* C10, amended: getProps takes part only when the results hold the widget's
\* facet; without it getProps returns null whatever the refinement.
C10_ViewsAgree ==
    Returned("getSearchParameters") =>
        LET p == props[ret.w]
            id == p.attributes[1]
            toggled == Toggled(ret.out.value, id)
            view == getProps(p, state, results)
            meta == getMetadata(p, state)
        IN /\ view.isNull <=> ~(results.present /\ id \in results.facets)
           /\ ~view.isNull =>
                /\ toggled # <<>> <=> view.currentRefinement # Null
                /\ toggled # <<>> => toggled = <<view.currentRefinement>>
           /\ toggled # <<>> <=> Len(meta.items) = 1
           /\ toggled # <<>> => toggled = <<meta.items[1].currentRefinement>>
           /\ toggled = <<>> => meta.items = <<>>

C10_Witness ==
    /\ Returned("getSearchParameters")
    /\ ret.w = "categories"
    /\ results.present /\ "categories" \in results.facets
    /\ state["categories"] = Undefined
    /\ Toggled(ret.out.value, "categories") = <<<<"b">>>>

\* The limit the claims name: limitMax when showMore, else limitMin.
ClaimedLimit(p) == IF p.showMore THEN p.limitMax ELSE p.limitMin
\* The top-level facet values of the response ([] when it has no data).
TopValues == IF results.hasData THEN results.data ELSE <<>>

\* C4: getProps returns at most `limit` top-level items: the first
\* min(limit, n) facet values, one item each, in the engine's order.
C4_TopLevelLimit ==
    (Returned("getProps") /\ ~ret.out.isNull) =>
        LET limit == ClaimedLimit(props[ret.w])
            items == ret.out.items
        IN /\ Len(items) <= limit
           /\ Len(items) = Min(limit, Len(TopValues))
           /\ \A i \in 1..Len(items) :
                /\ items[i].label = TopValues[i].name
                /\ items[i].count = TopValues[i].count
                /\ items[i].isRefined = TopValues[i].isRefined

C4_Witness ==
    /\ Returned("getProps")
    /\ ~ret.out.isNull
    /\ props[ret.w].showMore
    /\ props[ret.w].limitMax = 1
    /\ props[ret.w].limitMin = 0
    /\ Len(TopValues) = 2
    /\ Len(ret.out.items) = 1
    /\ ret.out.items[1].label = "a"

RECURSIVE SameShape(_, _)
\* The item has the node's children, all of them, at every depth.
SameShape(item, node) ==
    /\ item.hasChildren = node.hasData
    /\ Len(item.children) = Len(node.data)
    /\ \A j \in 1..Len(item.children) : SameShape(item.children[j], node.data[j])

RECURSIVE LimitedShape(_, _, _)
\* The item has the first min(limit, k) of the node's k children, each
\* limited the same way.
LimitedShape(item, node, limit) ==
    /\ item.hasChildren = node.hasData
    /\ Len(item.children) = Min(limit, Len(node.data))
    /\ \A j \in 1..Len(item.children) :
          /\ item.children[j].label = node.data[j].name
          /\ LimitedShape(item.children[j], node.data[j], limit)

\* C5 as stated: below the top level nothing is truncated; every item has
\* all the children of its facet value, and none when the value has none.
C5_ChildrenKept_Original ==
    (Returned("getProps") /\ ~ret.out.isNull) =>
        \A i \in 1..Len(ret.out.items) : SameShape(ret.out.items[i], TopValues[i])

\* C5, amended: the limit applies to every list of siblings: an item has the
\* first min(limit, k) of its value's k children, at every depth, and no
\* children when the value has none.
C5_ChildrenLimited ==
    (Returned("getProps") /\ ~ret.out.isNull) =>
        \A i \in 1..Len(ret.out.items) :
            LimitedShape(ret.out.items[i], TopValues[i], ClaimedLimit(props[ret.w]))

C5_Witness ==
    /\ Returned("getProps")
    /\ ~ret.out.isNull
    /\ ClaimedLimit(props[ret.w]) = 1
    /\ Len(ret.out.items) = 1
    /\ Len(TopValues[1].data) = 2
    /\ Len(ret.out.items[1].children) = 1
    /\ Len(TopValues[1].data[1].data) = 2
    /\ Len(ret.out.items[1].children[1].children) = 1

\* What C8 says getValue returns for `path`.
ClaimedValue(path, p, s) ==
    LET id == p.attributes[1]
        refinement == getCurrentRefinement(p, s)
        throwaway == NewSearchParameters(<<FacetDefinition(id, p)>>, NoNumber)
    IN IF refinement = Null THEN path
       ELSE First(getHierarchicalRefinement(
                toggleHierarchicalFacetRefinement(
                    toggleHierarchicalFacetRefinement(throwaway, id, refinement),
                    id, path),
                id))

\* C8: an item's value is the path itself when nothing is refined; otherwise
\* it is read back under attributes[0] from a throwaway SearchParameters
\* whose one hierarchical facet is registered under attributes[0], after the
\* current refinement and then the path were toggled on attributes[0].
C8_ToggleValue ==
    (Returned("getProps") /\ ~ret.out.isNull) =>
        LET p == props[ret.w]
            id == p.attributes[1]
        IN /\ \A i \in 1..Len(ret.out.items) :
                ret.out.items[i].value = ClaimedValue(TopValues[i].path, p, state)
           /\ (ret.out.currentRefinement # Null /\ ret.out.items # <<>>) =>
                /\ Len(tmpSearchParameters(p).hierarchicalFacets) = 1
                /\ tmpSearchParameters(p).hierarchicalFacets[1].name = id
                /\ getValueId(p) = id

\* C6: getSearchParameters returns maxValuesPerFacet = max(the input's, or 0
\* when unset, and the active limit), so never below either; after the
\* widgets of a build have run, in any order, it is the maximum of their
\* limits and the value the build started from.
C6_MaxValuesPerFacet ==
    /\ Returned("getSearchParameters") =>
          LET limit == ClaimedLimit(props[ret.w])
              before == ret.input.maxValuesPerFacet
              after == ret.out.value.maxValuesPerFacet
          IN /\ after = (IF before = NoNumber \/ before < limit THEN limit ELSE before)
             /\ after >= limit
             /\ before # NoNumber => after >= before
    /\ LET ran == {w \in Widgets :
                     \E i \in 1..Len(searchParameters.hierarchicalFacets) :
                        searchParameters.hierarchicalFacets[i].name = w}
           final == searchParameters.maxValuesPerFacet
       IN IF ran = {} THEN final = baseParameters.maxValuesPerFacet
          ELSE /\ \A w \in ran : final >= ClaimedLimit(props[w])
               /\ final >= baseParameters.maxValuesPerFacet
               /\ \/ final = baseParameters.maxValuesPerFacet
                  \/ \E w \in ran : final = ClaimedLimit(props[w])

C6_Witness ==
    /\ Returned("getSearchParameters")
    /\ Len(searchParameters.hierarchicalFacets) = 2
    /\ ClaimedLimit(props["categories"]) = 1
    /\ ClaimedLimit(props["brand"]) = 0
    /\ baseParameters.maxValuesPerFacet = NoNumber
    /\ ret.w = "brand"
    /\ ret.input.maxValuesPerFacet = 1
    /\ searchParameters.maxValuesPerFacet = 1

====
